---- MODULE Spec2Model ----
(***************************************************************************)
(* A model of balatro-joker-bot: the comment processor (gate and           *)
(* extraction), the cache-aside joker repository, the Reddit retry         *)
(* envelope and the bot's control loop.                                    *)
(*                                                                         *)
(* Python values are modelled as follows.  A str is a sequence of          *)
(* one-character strings, so that strip() and lower() are computed.  An    *)
(* object that may be None is a record with a flag (present, has_body) or  *)
(* the author name NoAuthor.  A call that can raise returns a record with  *)
(* the raised exception class.  The methods are modelled as written, on    *)
(* instances that carry the attributes their constructors assign.          *)
(***************************************************************************)
EXTENDS Integers, Sequences, FiniteSets, TLC

VARIABLES
    config,       \* CommentProcessorConfig of the processor
    comment,      \* the comment handed to the comment processor
    gate,         \* result of should_process_comment(comment)
    matches,      \* result of extract_match_names(comment)
    xpc,          \* position of the processor call: "call" or "done"
    store,        \* rows of the jokers table
    cache,        \* BalatroRepository.cache: cache key -> cached value
    last,         \* the repository call that ended last
    prev,         \* summary of the repository call that ended before it
    retry_limit,  \* RedditConfig.retry_limit
    attempts,     \* outcome of each attempt the wrapped operation would give
    envelope,     \* result of _retry_on_failure
    rpc,          \* position of the envelope call: "call" or "done"
    pc,           \* position of RedditJokerBot.run
    seen,         \* number of comments the stream has delivered to run
    handled,      \* what run did with the comment it handled last
    stop_requested, \* the operator has asked the bot to stop
    recency,      \* keys of cache by use, least recently used first
    maxsize,      \* BalatroRepository.cache.maxsize
    twin,         \* a second repository run on the same calls
    threads,      \* position and locals of each thread calling the repository
    legacy,       \* state of BalatroBot.run
    importer      \* state of CSVImporter.import_data

vars == <<config, comment, gate, matches, xpc, store, cache, last, prev,
          retry_limit, attempts, envelope, rpc, pc, seen, handled,
          stop_requested, recency, maxsize, twin, threads, legacy,
          importer>>

procVars == <<config, comment, gate, matches, xpc>>
repoVars == <<store, cache, last, prev>>
retryVars == <<retry_limit, attempts, envelope, rpc>>
botVars == <<pc, seen, handled, stop_requested>>
lruVars == <<recency, maxsize, twin>>
extVars == <<lruVars, threads, legacy, importer>>

(***************************************************************************)
(* Bounds of the model.                                                    *)
(***************************************************************************)
MaxBody == 3
MaxCap == 2
MaxRetryLimit == 3
MaxStreamBody == 1
MaxEvents == 3
MaxMatchList == 2
MaxPattern == 3
MaxCacheSize == 2
MaxLegacyEvents == 4
MaxRecords == 2

(***************************************************************************)
(* str: strip() and lower().                                               *)
(***************************************************************************)
LowerChar(ch) ==
    CASE ch = "A" -> "a"
      [] ch = "B" -> "b"
      [] ch = "C" -> "c"
      [] OTHER -> ch

Lower(s) == [i \in DOMAIN s |-> LowerChar(s[i])]

RECURSIVE LStrip(_)
LStrip(s) ==
    IF s # <<>> /\ Head(s) = " " THEN LStrip(Tail(s)) ELSE s

RECURSIVE RStrip(_)
RStrip(s) ==
    IF s # <<>> /\ s[Len(s)] = " " THEN RStrip(SubSeq(s, 1, Len(s) - 1)) ELSE s

Strip(s) == RStrip(LStrip(s))

(***************************************************************************)
(* Comments and the processor configuration.                               *)
(***************************************************************************)
NoAuthor == "None"
BotName == "joker-bot"
Authors == {NoAuthor, BotName, "alice", "mallory"}
Blacklist == {"mallory"}

\* match_phrases: the catalog names, lower-cased once when the configuration
\* is built.
Phrases == {<<"a">>, <<"b">>, <<"c">>}

\* A body is a sequence of tokens: a token is either plain text or text that
\* the match pattern wraps in double brackets.
Tok(br, s) == [bracketed |-> br, text |-> s]

InnerTexts ==
    {<<"a">>, <<"A">>, <<" ", "a">>, <<"b">>, <<"c">>, <<"a", "b">>}

Tokens == {Tok(TRUE, s) : s \in InnerTexts} \cup {Tok(FALSE, <<"a">>)}

RECURSIVE SeqsUpTo(_, _)
SeqsUpTo(S, n) ==
    IF n = 0 THEN {<<>>}
    ELSE LET shorter == SeqsUpTo(S, n - 1)
         IN shorter \cup {Append(q, x) : q \in {r \in shorter : Len(r) = n - 1}, x \in S}

Bodies == SeqsUpTo(Tokens, MaxBody)

Comments ==
    [present : {TRUE}, has_id : BOOLEAN, author : Authors,
     has_body : {TRUE}, body : Bodies]
    \cup [present : {TRUE}, has_id : BOOLEAN, author : Authors,
          has_body : {FALSE}, body : {<<>>}]
    \cup [present : {FALSE}, has_id : {FALSE}, author : {NoAuthor},
          has_body : {FALSE}, body : {<<>>}]

Configs ==
    [bot_username : {BotName}, match_phrases : {Phrases},
     user_blacklist : {Blacklist}, max_matches : 1..MaxCap,
     strip_whitespace : BOOLEAN]

\* The attributes CommentProcessor.__init__ assigns to the instance.
ProcessorAttrs == {"config", "_compiled_pattern", "logger"}

NoRaise == ""
Returned(v) == [raised |-> NoRaise, value |-> v]
Raised(cls) == [raised |-> cls, value |-> FALSE]

(***************************************************************************)
(* CommentProcessor.                                                       *)
(***************************************************************************)
_clean_match(match, cfg) ==
    IF cfg.strip_whitespace THEN Strip(match) ELSE match

\* _validate_match that accepts a candidate that begins with a phrase.
_validate_match_prefix(match, cfg) ==
    \E n \in 1..Len(match) : Lower(SubSeq(match, 1, n)) \in cfg.match_phrases

_validate_match(match, cfg) == Lower(match) \in cfg.match_phrases

\* should_process_comment with a handler that returns True.
should_process_comment_failopen(c, cfg) ==
    LET fault == \/ ~c.present
                 \/ c.author = NoAuthor
                 \/ "user_blacklist" \notin ProcessorAttrs
    IN IF fault
       THEN IF c.present /\ c.has_id THEN Returned(TRUE)
            ELSE Raised("AttributeError")
       ELSE Returned(/\ c.present
                     /\ c.author # cfg.bot_username
                     /\ c.author \notin cfg.user_blacklist
                     /\ c.has_body
                     /\ c.author # NoAuthor)

\* The elements of the list handed to all() are evaluated in order, inside
\* the try.  comment.author.name faults on a missing comment or author, and
\* self.user_blacklist faults when the instance has no such attribute.  The
\* handler formats comment.id into its log line and returns False.
should_process_comment(c, cfg) ==
    LET fault == \/ ~c.present
                 \/ c.author = NoAuthor
                 \/ "user_blacklist" \notin ProcessorAttrs
    IN IF fault
       THEN IF c.present /\ c.has_id THEN Returned(FALSE)
            ELSE Raised("AttributeError")
       ELSE Returned(/\ c.present
                     /\ c.author # cfg.bot_username
                     /\ c.author \notin cfg.user_blacklist
                     /\ c.has_body
                     /\ c.author # NoAuthor)

\* _compiled_pattern.finditer(body): group(1) of each bracketed reference,
\* in reading order.
RECURSIVE finditer(_)
finditer(body) ==
    IF body = <<>> THEN <<>>
    ELSE IF Head(body).bracketed
         THEN <<Head(body).text>> \o finditer(Tail(body))
         ELSE finditer(Tail(body))

\* The for loop of extract_match_names over the matches: valid_matches at
\* the end of the loop.
RECURSIVE MatchLoop(_, _, _)
MatchLoop(groups, valid_matches, cfg) ==
    IF groups = <<>> THEN valid_matches
    ELSE IF Cardinality(valid_matches) >= cfg.max_matches THEN valid_matches
    ELSE LET cleaned_match == _clean_match(Head(groups), cfg)
         IN IF _validate_match(cleaned_match, cfg)
            THEN MatchLoop(Tail(groups), valid_matches \cup {cleaned_match}, cfg)
            ELSE MatchLoop(Tail(groups), valid_matches, cfg)

\* What extract_match_names gives back: kind is the Python type of the value
\* ("list", "set", "None") or "raise"; items is its content; valid_matches is
\* the local set when the loop ended.
Extracted(kind, items, valid) ==
    [kind |-> kind, items |-> items, valid_matches |-> valid]

extract_match_names(c, cfg) ==
    LET ok == should_process_comment(c, cfg)
    IN IF ok.raised # NoRaise THEN Extracted("raise", <<>>, {})
       ELSE IF ~ok.value
            THEN IF c.has_id THEN Extracted("list", <<>>, {})
                 ELSE Extracted("raise", <<>>, {})
       ELSE \* the try block has no return statement: the call yields None
            Extracted("None", <<>>, MatchLoop(finditer(c.body), {}, cfg))

(***************************************************************************)
(* RedditService: error translation and the retry envelope.                *)
(***************************************************************************)
RetryDelay == 5

\* What one attempt of a wrapped operation can do: succeed, fault inside the
\* _handle_reddit_errors context with a praw or prawcore exception, or raise
\* one of the service's own exception classes itself.
PRAWExceptions == {"RedditAPIException"}
ResponseExceptions == {"ServerError", "Forbidden", "TooManyRequests"}
RequestExceptions == {"RequestException"}
OtherExceptions == {"OAuthException"}
LibraryFaults ==
    PRAWExceptions \cup ResponseExceptions \cup RequestExceptions
        \cup OtherExceptions
DirectFaults == {"RedditRateLimitError", "RedditAuthenticationError"}
AttemptOutcomes == {"ok"} \cup LibraryFaults \cup DirectFaults

_handle_reddit_errors(exc) ==
    CASE exc \in PRAWExceptions -> "RedditServiceError"
      [] exc \in ResponseExceptions -> "RedditServiceError"
      [] exc \in RequestExceptions -> "RedditConnectionError"
      [] OTHER -> "RedditServiceError"

\* The exception an attempt raises to the envelope.
OperationRaises(outcome) ==
    IF outcome \in LibraryFaults THEN _handle_reddit_errors(outcome)
    ELSE outcome

EnvelopeResult(outcome, error, exhausted, calls, waits) ==
    [outcome |-> outcome, error |-> error, exhausted |-> exhausted,
     calls |-> calls, waits |-> waits]

\* The loop with a handler that re-raises a connection or service error at
\* once.
RECURSIVE RetryLoopNoRetry(_, _, _, _, _)
RetryLoopNoRetry(outs, limit, retries, calls, waits) ==
    IF ~(retries < limit)
    THEN EnvelopeResult("raise", "RedditServiceError", TRUE, calls, waits)
    ELSE LET o == outs[calls + 1]
             e == OperationRaises(o)
             wait_time == RetryDelay * (2 ^ retries)
         IN IF o = "ok"
            THEN EnvelopeResult("return", NoRaise, FALSE, calls + 1, waits)
            ELSE IF e = "RedditRateLimitError"
            THEN RetryLoopNoRetry(outs, limit, retries + 1, calls + 1,
                                  Append(waits, wait_time))
            ELSE EnvelopeResult("raise", e, FALSE, calls + 1, waits)

\* The loop with a try block that calls the operation again after it has
\* returned, while the budget lasts.
RECURSIVE RetryLoopResend(_, _, _, _, _)
RetryLoopResend(outs, limit, retries, calls, waits) ==
    IF ~(retries < limit)
    THEN EnvelopeResult("raise", "RedditServiceError", TRUE, calls, waits)
    ELSE LET o == outs[calls + 1]
             e == OperationRaises(o)
             wait_time == RetryDelay * (2 ^ retries)
         IN IF o = "ok"
            THEN IF retries = limit - 1
                 THEN EnvelopeResult("return", NoRaise, FALSE, calls + 1, waits)
                 ELSE RetryLoopResend(outs, limit, retries + 1, calls + 1, waits)
            ELSE IF e = "RedditRateLimitError"
            THEN RetryLoopResend(outs, limit, retries + 1, calls + 1,
                                 Append(waits, wait_time))
            ELSE IF e \in {"RedditConnectionError", "RedditServiceError"}
            THEN IF retries = limit - 1
                 THEN EnvelopeResult("raise", e, FALSE, calls + 1, waits)
                 ELSE RetryLoopResend(outs, limit, retries + 1, calls + 1,
                                      Append(waits, wait_time))
            ELSE EnvelopeResult("raise", e, FALSE, calls + 1, waits)

\* The while loop of _retry_on_failure.  outs[k] is what the k-th call of
\* the operation does; calls counts the calls made, waits lists the sleeps.
RECURSIVE RetryLoop(_, _, _, _, _)
RetryLoop(outs, limit, retries, calls, waits) ==
    IF ~(retries < limit)
    THEN EnvelopeResult("raise", "RedditServiceError", TRUE, calls, waits)
    ELSE LET o == outs[calls + 1]
             e == OperationRaises(o)
             wait_time == RetryDelay * (2 ^ retries)
         IN IF o = "ok"
            THEN EnvelopeResult("return", NoRaise, FALSE, calls + 1, waits)
            ELSE IF e = "RedditRateLimitError"
            THEN RetryLoop(outs, limit, retries + 1, calls + 1,
                           Append(waits, wait_time))
            ELSE IF e \in {"RedditConnectionError", "RedditServiceError"}
            THEN IF retries = limit - 1
                 THEN EnvelopeResult("raise", e, FALSE, calls + 1, waits)
                 ELSE RetryLoop(outs, limit, retries + 1, calls + 1,
                                Append(waits, wait_time))
            ELSE EnvelopeResult("raise", e, FALSE, calls + 1, waits)

_retry_on_failure(outs, limit) == RetryLoop(outs, limit, 0, 0, <<>>)

(***************************************************************************)
(* JokerCard and the jokers table.                                         *)
(***************************************************************************)
JokerNames == {<<"a">>, <<"A">>}
Effects == {<<"x">>, <<"y">>, <<" ">>}

JokerCards ==
    [name : JokerNames, effect : Effects, rarity : {<<"r">>},
     cost : {<<"1">>}, availability : {<<"v">>}]

NoCard ==
    [name |-> <<>>, effect |-> <<>>, rarity |-> <<>>, cost |-> <<>>,
     availability |-> <<>>]

\* JokerCard.as_dict: the parameters of the INSERT.
as_dict(joker) ==
    [name |-> joker.name, effect |-> joker.effect, rarity |-> joker.rarity,
     cost |-> joker.cost, availability |-> joker.availability]

\* JokerCard.from_dict: every str field is stripped.
from_dict(data) ==
    [name |-> Strip(data.name), effect |-> Strip(data.effect),
     rarity |-> Strip(data.rarity), cost |-> Strip(data.cost),
     availability |-> Strip(data.availability)]

\* The table holds at most one row per name (UNIQUE on the name as spelled).
\* INSERT ... ON CONFLICT (name) DO UPDATE.
SqlUpsert(st, row) == {r \in st : r.name # row.name} \cup {row}

\* WHERE LOWER(name) = LOWER(%s)
SqlMatching(st, name) == {r \in st : Lower(r.name) = Lower(name)}

\* The query has no ORDER BY: which matching row comes first is up to the
\* database.  order lists the names in the order the database scans them.
HeapOrders ==
    {o \in [1..Cardinality(JokerNames) -> JokerNames] :
        \A i, j \in DOMAIN o : i # j => o[i] # o[j]}

FirstRow(rows, order) ==
    LET i == CHOOSE k \in DOMAIN order :
                 /\ \E r \in rows : r.name = order[k]
                 /\ \A m \in 1..(k - 1) : \A r \in rows : r.name # order[m]
    IN CHOOSE r \in rows : r.name = order[i]

\* ORDER BY name
NameOrder == <<<<"a">>, <<"A">>>>
NameRank(n) == CHOOSE k \in DOMAIN NameOrder : NameOrder[k] = n

RECURSIVE SortedNames(_)
SortedNames(S) ==
    IF S = {} THEN <<>>
    ELSE LET n == CHOOSE x \in S : \A y \in S : NameRank(x) <= NameRank(y)
         IN <<n>> \o SortedNames(S \ {n})

(***************************************************************************)
(* BalatroRepository: the cache-aside layer.                               *)
(***************************************************************************)
JokerKey(name) == [kind |-> "joker", name |-> name]
ListKey == [kind |-> "joker_list", name |-> <<>>]

CacheValue(card, names) == [card |-> card, names |-> names]

\* cache[key] = value
CachePut(ca, key, value) ==
    [k \in DOMAIN ca \cup {key} |-> IF k = key THEN value ELSE ca[k]]

\* cache.pop(key, None)
CachePop(ca, key) == [k \in DOMAIN ca \ {key} |-> ca[k]]

\* What a repository call gives back.
RepoResult(st, ca, raised, kind, card, names) ==
    [store |-> st, cache |-> ca, raised |-> raised, kind |-> kind,
     card |-> card, names |-> names]

\* get_joker_information that remembers a failed query under the key.
get_joker_information_negcache(st, ca, name, fault, order) ==
    LET cache_key == JokerKey(name)
    IN IF cache_key \in DOMAIN ca
       THEN RepoResult(st, ca, NoRaise, "JokerCard", ca[cache_key].card, <<>>)
       ELSE IF fault
       THEN RepoResult(st, CachePut(ca, cache_key, CacheValue(NoCard, <<>>)),
                       "QueryError", "raise", NoCard, <<>>)
       ELSE LET result == SqlMatching(st, name)
            IN IF result # {}
               THEN LET joker == from_dict(FirstRow(result, order))
                    IN RepoResult(st, CachePut(ca, cache_key, CacheValue(joker, <<>>)),
                                  NoRaise, "JokerCard", joker, <<>>)
               ELSE RepoResult(st, ca, NoRaise, "None", NoCard, <<>>)

get_joker_information(st, ca, name, fault, order) ==
    LET cache_key == JokerKey(name)
    IN IF cache_key \in DOMAIN ca
       THEN RepoResult(st, ca, NoRaise, "JokerCard", ca[cache_key].card, <<>>)
       ELSE IF fault
       THEN RepoResult(st, CachePop(ca, cache_key), "QueryError", "raise",
                       NoCard, <<>>)
       ELSE LET result == SqlMatching(st, name)
            IN IF result # {}
               THEN LET joker == from_dict(FirstRow(result, order))
                    IN RepoResult(st, CachePut(ca, cache_key, CacheValue(joker, <<>>)),
                                  NoRaise, "JokerCard", joker, <<>>)
               ELSE RepoResult(st, ca, NoRaise, "None", NoCard, <<>>)

get_joker_name_list(st, ca, fault) ==
    LET cache_key == ListKey
    IN IF cache_key \in DOMAIN ca
       THEN RepoResult(st, ca, NoRaise, "list", NoCard, ca[cache_key].names)
       ELSE IF fault
       THEN RepoResult(st, CachePop(ca, cache_key), "QueryError", "raise",
                       NoCard, <<>>)
       ELSE LET joker_names == SortedNames({r.name : r \in st})
            IN RepoResult(st, CachePut(ca, cache_key, CacheValue(NoCard, joker_names)),
                          NoRaise, "list", NoCard, joker_names)

\* add_joker that invalidates before it writes.
add_joker_eager(st, ca, joker, fault) ==
    LET popped == CachePop(CachePop(ca, JokerKey(Lower(joker.name))), ListKey)
    IN IF fault
       THEN RepoResult(st, popped, "QueryError", "raise", NoCard, <<>>)
       ELSE RepoResult(SqlUpsert(st, as_dict(joker)), popped,
                       NoRaise, "None", NoCard, <<>>)

add_joker(st, ca, joker, fault) ==
    IF fault
    THEN RepoResult(st, ca, "QueryError", "raise", NoCard, <<>>)
    ELSE RepoResult(SqlUpsert(st, as_dict(joker)),
                    CachePop(CachePop(ca, JokerKey(Lower(joker.name))), ListKey),
                    NoRaise, "None", NoCard, <<>>)

\* delete_joker that raises when no row was deleted.
delete_joker_strict(st, ca, name, fault) ==
    IF fault
    THEN RepoResult(st, ca, "QueryError", "raise", NoCard, <<>>)
    ELSE LET affected == Cardinality(SqlMatching(st, name))
         IN IF affected > 0
            THEN RepoResult(st \ SqlMatching(st, name),
                            CachePop(CachePop(ca, JokerKey(Lower(name))), ListKey),
                            NoRaise, "True", NoCard, <<>>)
            ELSE RepoResult(st, ca, "QueryError", "raise", NoCard, <<>>)

delete_joker(st, ca, name, fault) ==
    IF fault
    THEN RepoResult(st, ca, "QueryError", "raise", NoCard, <<>>)
    ELSE LET affected == Cardinality(SqlMatching(st, name))
         IN RepoResult(st \ SqlMatching(st, name),
                       IF affected > 0
                       THEN CachePop(CachePop(ca, JokerKey(Lower(name))), ListKey)
                       ELSE ca,
                       NoRaise, "True", NoCard, <<>>)

(***************************************************************************)
(* JokerService.                                                           *)
(***************************************************************************)
\* JokerCard._is_length_valid; max_length 0 stands for None.
_is_length_valid(value, min_length, max_length) ==
    IF max_length # 0
    THEN min_length <= Len(Strip(value)) /\ Len(Strip(value)) <= max_length
    ELSE min_length <= Len(Strip(value))

\* JokerCard.validate: the last element measures name, not availability.
validate(j) ==
    /\ j.name # <<>> /\ _is_length_valid(j.name, 1, 50)
    /\ j.effect # <<>> /\ _is_length_valid(j.effect, 1, 0)
    /\ j.rarity # <<>> /\ _is_length_valid(j.rarity, 1, 10)
    /\ j.cost # <<>> /\ _is_length_valid(j.cost, 1, 5)
    /\ j.availability # <<>> /\ _is_length_valid(j.name, 1, 0)

ServiceResult(ca, raised, card) == [cache |-> ca, raised |-> raised, card |-> card]

\* JokerService.get_joker_information
service_get_joker_information(st, ca, name, fault, order) ==
    LET r == get_joker_information(st, ca, name, fault, order)
    IN IF r.raised # NoRaise
       THEN ServiceResult(r.cache, "JokerServiceError", NoCard)
       ELSE IF r.kind = "None"
       THEN ServiceResult(r.cache, "JokerNotFoundError", NoCard)
       ELSE IF ~validate(r.card)
       THEN ServiceResult(r.cache, "JokerValidationError", NoCard)
       ELSE ServiceResult(r.cache, NoRaise, r.card)

\* JokerService.format_joker_response: one block per card.
format_joker_response(joker) ==
    [header |-> joker.name, cost |-> joker.cost, rarity |-> joker.rarity,
     effect |-> joker.effect, availability |-> joker.availability]

\* The loop of format_multiple_jokers leaving at the first name that fails.
RECURSIVE FormatLoopStopOnFailure(_, _, _, _, _, _, _, _)
FormatLoopStopOnFailure(st, ca, joker_names, i, faults, order, responses, lookups) ==
    IF i > Len(joker_names)
    THEN [cache |-> ca, responses |-> responses, lookups |-> lookups]
    ELSE LET name == joker_names[i]
             r == service_get_joker_information(st, ca, name, i \in faults, order)
         IN IF r.raised = NoRaise
            THEN FormatLoopStopOnFailure(st, r.cache, joker_names, i + 1, faults,
                                         order,
                                         Append(responses, format_joker_response(r.card)),
                                         Append(lookups, [name |-> name, raised |-> r.raised]))
            ELSE [cache |-> r.cache, responses |-> responses,
                  lookups |-> Append(lookups, [name |-> name, raised |-> r.raised])]

\* JokerService.format_multiple_jokers: faults holds the positions of
\* joker_names whose store query faults.  responses are the blocks that are
\* joined; lookups are the names handed to the repository, each with the
\* exception its lookup ended with.
RECURSIVE FormatLoop(_, _, _, _, _, _, _, _)
FormatLoop(st, ca, joker_names, i, faults, order, responses, lookups) ==
    IF i > Len(joker_names)
    THEN [cache |-> ca, responses |-> responses, lookups |-> lookups]
    ELSE LET name == joker_names[i]
             r == service_get_joker_information(st, ca, name, i \in faults, order)
         IN IF r.raised = NoRaise
            THEN FormatLoop(st, r.cache, joker_names, i + 1, faults, order,
                            Append(responses, format_joker_response(r.card)),
                            Append(lookups, [name |-> name, raised |-> r.raised]))
            ELSE FormatLoop(st, r.cache, joker_names, i + 1, faults, order,
                            responses,
                            Append(lookups, [name |-> name, raised |-> r.raised]))

format_multiple_jokers(st, ca, joker_names, faults, order) ==
    FormatLoop(st, ca, joker_names, 1, faults, order, <<>>, <<>>)

(***************************************************************************)
(* RedditJokerBot.run.                                                     *)
(***************************************************************************)
\* run without the test of matches.
ShouldReplyAlways(m) == TRUE

\* "if matches:" of run: None and the empty list or set are false.
ShouldReply(m) == m.kind # "None" /\ m.items # <<>>

(***************************************************************************)
(* States before any call.                                                 *)
(***************************************************************************)
DefaultRetryLimit == 3

NoComment ==
    [present |-> FALSE, has_id |-> FALSE, author |-> NoAuthor,
     has_body |-> FALSE, body |-> <<>>]

DefaultConfig ==
    [bot_username |-> BotName, match_phrases |-> Phrases,
     user_blacklist |-> Blacklist, max_matches |-> MaxCap,
     strip_whitespace |-> TRUE]

EmptyCache == [k \in {} |-> CacheValue(NoCard, <<>>)]

CallRec(op, name, joker, fault, r) ==
    [op |-> op, name |-> name, joker |-> joker, fault |-> fault,
     raised |-> r.raised, kind |-> r.kind, card |-> r.card, names |-> r.names]

\* What is kept of the call before the last one: a write that succeeded,
\* and the name it wrote.
CallSummary(call) ==
    IF call.op \in {"add", "delete", "external"} /\ call.raised = NoRaise
    THEN [op |-> call.op, name |-> call.name]
    ELSE [op |-> "other", name |-> <<>>]

NoCall ==
    [op |-> "none", name |-> <<>>, joker |-> NoCard, fault |-> FALSE,
     raised |-> NoRaise, kind |-> "None", card |-> NoCard, names |-> <<>>]

NoEnvelope == EnvelopeResult("none", NoRaise, FALSE, 0, <<>>)

Handled(c, m, lookups, reply, env) ==
    [comment |-> c, matches |-> m, lookups |-> lookups, reply |-> reply,
     sends |-> env.calls, acked |-> env.outcome = "return"]

NoHandled == Handled(NoComment, Extracted("list", <<>>, {}), <<>>, <<>>, NoEnvelope)

ProcIdle ==
    /\ config = DefaultConfig
    /\ comment = NoComment
    /\ gate = Returned(FALSE)
    /\ matches = Extracted("list", <<>>, {})
    /\ xpc = "idle"

RepoIdle ==
    /\ store = {}
    /\ cache = EmptyCache
    /\ last = NoCall
    /\ prev = CallSummary(NoCall)

RetryIdle ==
    /\ retry_limit = DefaultRetryLimit
    /\ attempts = <<>>
    /\ envelope = NoEnvelope
    /\ rpc = "idle"

BotIdle ==
    /\ pc = "idle"
    /\ seen = 0
    /\ handled = NoHandled
    /\ stop_requested = FALSE

NoTwin == [cache |-> <<>>, recency |-> <<>>, kind |-> "None", card |-> NoCard,
           names |-> <<>>]

\* cachetools.LRUCache(maxsize=1024)
CacheMaxSize == 1024

LruIdle ==
    /\ recency = <<>>
    /\ maxsize = CacheMaxSize
    /\ twin = NoTwin

ExtIdle ==
    /\ LruIdle
    /\ threads = <<>>
    /\ legacy = <<>>
    /\ importer = <<>>

(***************************************************************************)
(* The comment processor applied to one comment.                           *)
(***************************************************************************)
InitExtract ==
    /\ ExtIdle
    /\ config \in Configs
    /\ comment \in Comments
    /\ gate = Returned(FALSE)
    /\ matches = Extracted("list", <<>>, {})
    /\ xpc = "call"
    /\ RepoIdle /\ RetryIdle /\ BotIdle

ProcessComment ==
    /\ xpc = "call"
    /\ gate' = should_process_comment(comment, config)
    /\ matches' = extract_match_names(comment, config)
    /\ xpc' = "done"
    /\ UNCHANGED <<config, comment>>
    /\ UNCHANGED <<repoVars, retryVars, botVars, extVars>>

NextExtract == ProcessComment

SpecExtract == InitExtract /\ [][NextExtract]_vars

(***************************************************************************)
(* The retry envelope applied to one operation.                            *)
(***************************************************************************)
AttemptSeqs == [1..MaxRetryLimit -> AttemptOutcomes]

InitRetry ==
    /\ ExtIdle
    /\ retry_limit \in 0..MaxRetryLimit
    /\ attempts \in AttemptSeqs
    /\ envelope = NoEnvelope
    /\ rpc = "call"
    /\ ProcIdle /\ RepoIdle /\ BotIdle

CallEnvelope ==
    /\ rpc = "call"
    /\ envelope' = _retry_on_failure(attempts, retry_limit)
    /\ rpc' = "done"
    /\ UNCHANGED <<retry_limit, attempts>>
    /\ UNCHANGED <<procVars, repoVars, botVars, extVars>>

NextRetry == CallEnvelope

SpecRetry == InitRetry /\ [][NextRetry]_vars

(***************************************************************************)
(* The repository under calls of its four operations, with another         *)
(* process importing jokers into the same table.  fault says that the      *)
(* database fails the statement of the call; a call served from the cache  *)
(* issues none.                                                            *)
(***************************************************************************)
InitRepo ==
    /\ ExtIdle
    /\ RepoIdle
    /\ ProcIdle /\ RetryIdle /\ BotIdle

GetJokerInformation ==
    \E name \in JokerNames :
      \E fault \in IF JokerKey(name) \in DOMAIN cache THEN {FALSE} ELSE BOOLEAN :
      \E order \in IF JokerKey(name) \notin DOMAIN cache /\ ~fault
                       /\ Cardinality(SqlMatching(store, name)) > 1
                    THEN HeapOrders ELSE {NameOrder} :
        LET r == get_joker_information(store, cache, name, fault, order)
        IN /\ store' = r.store
           /\ cache' = r.cache
           /\ last' = CallRec("get", name, NoCard, fault, r)
           /\ prev' = CallSummary(last)
           /\ UNCHANGED <<procVars, retryVars, botVars, extVars>>

GetJokerNameList ==
    \E fault \in IF ListKey \in DOMAIN cache THEN {FALSE} ELSE BOOLEAN :
        LET r == get_joker_name_list(store, cache, fault)
        IN /\ store' = r.store
           /\ cache' = r.cache
           /\ last' = CallRec("list", <<>>, NoCard, fault, r)
           /\ prev' = CallSummary(last)
           /\ UNCHANGED <<procVars, retryVars, botVars, extVars>>

AddJoker ==
    \E joker \in JokerCards, fault \in BOOLEAN :
        LET r == add_joker(store, cache, joker, fault)
        IN /\ store' = r.store
           /\ cache' = r.cache
           /\ last' = CallRec("add", joker.name, joker, fault, r)
           /\ prev' = CallSummary(last)
           /\ UNCHANGED <<procVars, retryVars, botVars, extVars>>

DeleteJoker ==
    \E name \in JokerNames, fault \in BOOLEAN :
        LET r == delete_joker(store, cache, name, fault)
        IN /\ store' = r.store
           /\ cache' = r.cache
           /\ last' = CallRec("delete", name, NoCard, fault, r)
           /\ prev' = CallSummary(last)
           /\ UNCHANGED <<procVars, retryVars, botVars, extVars>>

\* CSVImporter.import_data in another process: the record is stripped and
\* validated, then written through that process's own repository.  Only the
\* table changes for this process.
ExternalImport ==
    \E record \in JokerCards :
        LET joker == from_dict(record)
            r == RepoResult(SqlUpsert(store, as_dict(joker)), cache, NoRaise,
                            "None", NoCard, <<>>)
        IN /\ validate(joker)
           /\ store' = r.store
           /\ cache' = r.cache
           /\ last' = CallRec("external", joker.name, joker, FALSE, r)
           /\ prev' = CallSummary(last)
           /\ UNCHANGED <<procVars, retryVars, botVars, extVars>>

NextRepo ==
    \/ GetJokerInformation
    \/ GetJokerNameList
    \/ AddJoker
    \/ DeleteJoker
    \/ ExternalImport

SpecRepo == InitRepo /\ [][NextRepo]_vars

(***************************************************************************)
(* RedditJokerBot.run: the stream is opened through the retry envelope,    *)
(* then each comment it delivers is handled; any exception ends run.       *)
(***************************************************************************)
\* What the stream yields: comments with an id, and None, the value the
\* gate's own "comment is not None" test provides for.
StreamComments ==
    [present : {TRUE}, has_id : {TRUE}, author : Authors,
     has_body : {TRUE}, body : SeqsUpTo(Tokens, MaxStreamBody)]
    \cup [present : {TRUE}, has_id : {TRUE}, author : Authors,
          has_body : {FALSE}, body : {<<>>}]
    \cup {NoComment}

\* The table when the bot starts: the joker "A" is on record.
SeedStore ==
    {[name |-> <<"A">>, effect |-> <<"x">>, rarity |-> <<"r">>,
      cost |-> <<"1">>, availability |-> <<"v">>]}

\* The reply text: the blocks joined, then the signature line.
Reply(responses) == [blocks |-> responses, signature |-> BotName]

Init ==
    /\ ExtIdle
    /\ config = DefaultConfig
    /\ comment = NoComment
    /\ gate = Returned(FALSE)
    /\ matches = Extracted("list", <<>>, {})
    /\ xpc = "idle"
    /\ store = SeedStore
    /\ cache = EmptyCache
    /\ last = NoCall
    /\ prev = CallSummary(NoCall)
    /\ retry_limit \in 1..MaxRetryLimit
    /\ attempts = <<>>
    /\ envelope = NoEnvelope
    /\ rpc = "idle"
    /\ pc = "start"
    /\ seen = 0
    /\ handled = NoHandled
    /\ stop_requested = FALSE

\* get_comment_stream returns the stream.
RunOpenStream ==
    /\ pc = "start"
    /\ \E outs \in AttemptSeqs :
           /\ _retry_on_failure(outs, retry_limit).outcome = "return"
           /\ pc' = "streaming"
    /\ UNCHANGED <<seen, handled, stop_requested>>
    /\ UNCHANGED <<procVars, repoVars, retryVars, extVars>>

\* get_comment_stream raises: run logs the error and returns.
RunOpenFails ==
    /\ pc = "start"
    /\ \E outs \in AttemptSeqs :
           /\ _retry_on_failure(outs, retry_limit).outcome = "raise"
           /\ pc' = "stopped"
    /\ UNCHANGED <<seen, handled, stop_requested>>
    /\ UNCHANGED <<procVars, repoVars, retryVars, extVars>>

\* One pass of the for loop over the stream.
RunHandleComment ==
    /\ pc = "streaming"
    /\ seen < MaxEvents
    /\ seen' = seen + 1
    /\ \E c \in StreamComments :
         LET m == extract_match_names(c, config)
         IN IF m.kind = "raise"
            THEN /\ handled' = Handled(c, m, <<>>, <<>>, NoEnvelope)
                 /\ pc' = "stopped"
                 /\ UNCHANGED cache
            ELSE IF ShouldReply(m)
            THEN \E faults \in SUBSET (1..Len(m.items)), order \in HeapOrders,
                    outs \in AttemptSeqs :
                   LET f == format_multiple_jokers(store, cache, m.items,
                                                   faults, order)
                       env == _retry_on_failure(outs, retry_limit)
                   IN /\ handled' = Handled(c, m, f.lookups,
                                            Reply(f.responses), env)
                      /\ cache' = f.cache
                      /\ pc' = IF env.outcome = "raise" THEN "stopped"
                               ELSE "streaming"
            ELSE /\ handled' = Handled(c, m, <<>>, <<>>, NoEnvelope)
                 /\ pc' = "streaming"
                 /\ UNCHANGED cache
    /\ UNCHANGED <<store, last, prev, stop_requested>>
    /\ UNCHANGED <<procVars, retryVars, extVars>>

\* Iterating the stream raises: run logs the error and returns.
RunStreamFault ==
    /\ pc = "streaming"
    /\ pc' = "stopped"
    /\ UNCHANGED <<seen, handled, stop_requested>>
    /\ UNCHANGED <<procVars, repoVars, retryVars, extVars>>

\* The operator asks the running bot to stop.  run has no statement that
\* reads such a request: its loop is "for comment in stream" and nothing
\* else.
RequestStop ==
    /\ pc \in {"start", "streaming"}
    /\ ~stop_requested
    /\ stop_requested' = TRUE
    /\ UNCHANGED <<pc, seen, handled>>
    /\ UNCHANGED <<procVars, repoVars, retryVars, extVars>>

Next ==
    \/ RunOpenStream
    \/ RunOpenFails
    \/ RunHandleComment
    \/ RunStreamFault
    \/ RequestStop

Spec == Init /\ [][Next]_vars

(***************************************************************************)
(* CommentProcessor.__init__ and _compile_pattern: construction from a     *)
(* configuration object.                                                   *)
(***************************************************************************)
\* A pattern is a sequence of characters; re.compile rejects a pattern whose
\* parentheses do not balance.
PatternChars == {"(", ")", "x"}

RECURSIVE ParenDepth(_, _)
ParenDepth(pattern, depth) ==
    IF depth < 0 \/ pattern = <<>> THEN depth
    ELSE ParenDepth(Tail(pattern),
                    CASE Head(pattern) = "(" -> depth + 1
                      [] Head(pattern) = ")" -> depth - 1
                      [] OTHER -> depth)

re_compile(pattern) ==
    IF ParenDepth(pattern, 0) = 0 THEN Returned(TRUE) ELSE Raised("re.error")

\* The configuration object handed to the constructor: pattern_attr is the
\* name of the attribute that carries its pattern (CommentProcessorConfig
\* declares match_pattern).
ProcessorConfigs ==
    [pattern_attr : {"match_pattern", "joker_pattern"},
     pattern : SeqsUpTo(PatternChars, MaxPattern),
     ignore_case : BOOLEAN]

\* _compile_pattern reads self.config.joker_pattern; only re.error is
\* caught, and the handler logs through self.logger before it raises
\* ValueError.  assigned holds the attributes the instance has so far.
_compile_pattern(cfg, assigned) ==
    IF cfg.pattern_attr # "joker_pattern" THEN Raised("AttributeError")
    ELSE IF re_compile(cfg.pattern).raised = NoRaise THEN Returned(TRUE)
    ELSE IF "logger" \in assigned THEN Raised("ValueError")
    ELSE Raised("AttributeError")

\* __init__ assigns config, then _compiled_pattern, then logger.
CommentProcessor__init__(cfg) == _compile_pattern(cfg, {"config"})

InitConstruct ==
    /\ ExtIdle
    /\ config \in ProcessorConfigs
    /\ comment = NoComment
    /\ gate = Returned(FALSE)
    /\ matches = Extracted("list", <<>>, {})
    /\ xpc = "call"
    /\ RepoIdle /\ RetryIdle /\ BotIdle

\* CommentProcessor(config): gate holds how the construction ended.
Construct ==
    /\ xpc = "call"
    /\ gate' = CommentProcessor__init__(config)
    /\ xpc' = "done"
    /\ UNCHANGED <<config, comment, matches>>
    /\ UNCHANGED <<repoVars, retryVars, botVars, extVars>>

NextConstruct == Construct

SpecConstruct == InitConstruct /\ [][NextConstruct]_vars

(***************************************************************************)
(* The matching loop of extract_match_names (its try block) on the body of *)
(* a comment, as a function of the body and the configuration.             *)
(***************************************************************************)
MatchComments ==
    [present : {TRUE}, has_id : {TRUE}, author : {"alice"},
     has_body : {TRUE}, body : Bodies]

InitMatch ==
    /\ ExtIdle
    /\ config \in Configs
    /\ comment \in MatchComments
    /\ gate = Returned(FALSE)
    /\ matches = Extracted("list", <<>>, {})
    /\ xpc = "call"
    /\ RepoIdle /\ RetryIdle /\ BotIdle

\* Lines 143-157: finditer over the body, then the loop; valid_matches is
\* what the loop has collected when the block ends.
MatchBody ==
    /\ xpc = "call"
    /\ matches' = Extracted("None", <<>>,
                            MatchLoop(finditer(comment.body), {}, config))
    /\ xpc' = "done"
    /\ UNCHANGED <<config, comment, gate>>
    /\ UNCHANGED <<repoVars, retryVars, botVars, extVars>>

NextMatch == MatchBody

SpecMatch == InitMatch /\ [][NextMatch]_vars

(***************************************************************************)
(* The body of run's loop for a comment whose match list is given: what    *)
(* run does with whatever value extract_match_names hands it.              *)
(***************************************************************************)
\* The names a match list can hold: the spellings on record and a name the
\* table has no row for.
LookupNames == JokerNames \cup {<<"b">>}

MatchValues ==
    {Extracted("list", items, {}) : items \in SeqsUpTo(LookupNames, MaxMatchList)}
        \cup {Extracted("None", <<>>, {})}

\* The tables the lookups can meet: at most one row per name as spelled.
StoreStates ==
    {st \in SUBSET JokerCards :
        \A r1, r2 \in st : r1.name = r2.name => r1 = r2}

ReplyComment ==
    [present |-> TRUE, has_id |-> TRUE, author |-> "alice",
     has_body |-> TRUE, body |-> <<>>]

\* What each attempt of comment.reply does.
ReplyAttemptSeqs == [1..MaxRetryLimit -> {"ok", "RequestException"}]

InitReply ==
    /\ ExtIdle
    /\ config \in {cfg \in Configs : cfg.strip_whitespace}
    /\ comment = ReplyComment
    /\ gate = Returned(FALSE)
    /\ matches \in MatchValues
    /\ xpc = "done"
    /\ store \in StoreStates
    /\ cache = EmptyCache
    /\ last = NoCall
    /\ prev = CallSummary(NoCall)
    /\ retry_limit \in 1..MaxRetryLimit
    /\ attempts \in ReplyAttemptSeqs
    /\ envelope = NoEnvelope
    /\ rpc = "idle"
    /\ pc = "streaming"
    /\ seen = 0
    /\ handled = NoHandled
    /\ stop_requested = FALSE

\* Lines 71-80 of run for the comment and its match list.
RunReplyToMatches ==
    /\ pc = "streaming"
    /\ seen = 0
    /\ seen' = 1
    /\ IF ShouldReply(matches)
       THEN \E faults \in SUBSET (1..Len(matches.items)), order \in HeapOrders :
              LET f == format_multiple_jokers(store, cache, matches.items,
                                              faults, order)
                  env == _retry_on_failure(attempts, retry_limit)
              IN /\ handled' = Handled(comment, matches, f.lookups,
                                       Reply(f.responses), env)
                 /\ cache' = f.cache
                 /\ pc' = IF env.outcome = "raise" THEN "stopped"
                          ELSE "streaming"
       ELSE /\ handled' = Handled(comment, matches, <<>>, <<>>, NoEnvelope)
            /\ pc' = "streaming"
            /\ UNCHANGED cache
    /\ UNCHANGED <<store, last, prev, stop_requested>>
    /\ UNCHANGED <<procVars, retryVars, extVars>>

NextReply == RunReplyToMatches

SpecReply == InitReply /\ [][NextReply]_vars

(***************************************************************************)
(* Properties.                                                             *)
(***************************************************************************)
\* The gate as the specification words it: the event has a body and an
\* author, and the author is neither the bot nor blocklisted.
PassesGate(c, cfg) ==
    /\ c.present
    /\ c.has_body
    /\ c.author # NoAuthor
    /\ c.author # cfg.bot_username
    /\ c.author \notin cfg.user_blacklist

\* Normalization: trimmed and lower-cased.
Normalize(s) == Lower(Strip(s))

\* The normalized names of the recognized references of a body, in reading
\* order, and the same with later repetitions removed.
RECURSIVE RecognizedRefs(_, _)
RecognizedRefs(groups, cfg) ==
    IF groups = <<>> THEN <<>>
    ELSE IF Normalize(Head(groups)) \in cfg.match_phrases
         THEN <<Normalize(Head(groups))>> \o RecognizedRefs(Tail(groups), cfg)
         ELSE RecognizedRefs(Tail(groups), cfg)

RECURSIVE FirstOccurrences(_, _)
FirstOccurrences(q, seenNames) ==
    IF q = <<>> THEN <<>>
    ELSE IF Head(q) \in seenNames THEN FirstOccurrences(Tail(q), seenNames)
         ELSE <<Head(q)>> \o FirstOccurrences(Tail(q), seenNames \cup {Head(q)})

DistinctRefs(c, cfg) == FirstOccurrences(RecognizedRefs(finditer(c.body), cfg), {})

Occurrences(q, x) == Cardinality({i \in DOMAIN q : q[i] = x})

\* A record of the table resolves the name.
Resolves(st, name) ==
    \E r \in SqlMatching(st, name) : validate(from_dict(r))

\* C1: every comment the stream delivers that passes the gate and whose body
\* holds a [[Name]] reference to a known name with a record on file gets a
\* reply sent: once run has handled the comment, reply_to_comment was called
\* for it.
C1_QualifyingCommentIsAnswered ==
    LET c == handled.comment
    IN (/\ PassesGate(c, config)
        /\ \E i \in DOMAIN DistinctRefs(c, config) :
               Resolves(store, DistinctRefs(c, config)[i]))
       => handled.sends >= 1

\* C2: for a comment whose body holds [[Name]] references that normalize to
\* known phrases (no more distinct ones than max_matches), extraction gives a
\* collection that holds each of these normalized names exactly once.
C2_EachNameExactlyOnce ==
    (/\ xpc = "done"
     /\ comment.has_id
     /\ PassesGate(comment, config)
     /\ config.strip_whitespace
     /\ Len(DistinctRefs(comment, config)) <= config.max_matches)
    => /\ matches.kind \in {"list", "set"}
       /\ \A i \in DOMAIN DistinctRefs(comment, config) :
              Occurrences(matches.items, DistinctRefs(comment, config)[i]) = 1

\* C3: for a comment whose body holds more than max_matches distinct
\* recognized references, extraction gives exactly max_matches entries, the
\* first max_matches distinct recognized references in reading order.
C3_HardCap ==
    (/\ xpc = "done"
     /\ comment.has_id
     /\ PassesGate(comment, config)
     /\ config.strip_whitespace
     /\ Len(DistinctRefs(comment, config)) > config.max_matches)
    => /\ matches.kind \in {"list", "set"}
       /\ matches.items = SubSeq(DistinctRefs(comment, config), 1, config.max_matches)

\* C4: should_process_comment returns False for every comment whose author
\* is the bot, whatever its body.
C4_OwnCommentRejected ==
    (/\ xpc = "done"
     /\ comment.present
     /\ comment.has_id
     /\ comment.author = config.bot_username)
    => gate = Returned(FALSE)

\* The bot's own comment, with a recognized reference in its body, was
\* rejected.
C4_Witness ==
    /\ xpc = "done"
    /\ comment.has_id
    /\ comment.author = config.bot_username
    /\ comment.has_body
    /\ DistinctRefs(comment, config) # <<>>
    /\ gate = Returned(FALSE)

\* C5: a comment for which should_process_comment is false (no body, no
\* author, written by the bot or by a blocklisted user) causes no lookup in
\* the repository and no call of the Publisher.
C5_GateStopsAllWork ==
    LET c == handled.comment
    IN (/\ c.present
        /\ \/ ~PassesGate(c, config)
           \/ should_process_comment(c, config) # Returned(TRUE))
       => /\ handled.lookups = <<>>
          /\ handled.sends = 0

\* run has handled a comment of the bot itself that names a joker on record,
\* and sent nothing.
C5_Witness ==
    /\ handled.comment.present
    /\ handled.comment.author = config.bot_username
    /\ handled.comment.has_body
    /\ \E i \in DOMAIN DistinctRefs(handled.comment, config) :
           Resolves(store, DistinctRefs(handled.comment, config)[i])
    /\ handled.lookups = <<>>
    /\ handled.sends = 0
\* A write of the name n that succeeded.
WroteBefore(op, n) == prev = [op |-> op, name |-> n]

\* C6: add_joker(record) followed at once by get_joker_information of
\* record.name returns a card whose five fields equal those of record (for a
\* record whose fields are trimmed and a table with one row for the name).
C6_RoundTrip ==
    [][(/\ last.op = "add"
        /\ last.raised = NoRaise
        /\ from_dict(last.joker) = last.joker
        /\ last'.op = "get"
        /\ last'.name = last.joker.name
        /\ ~last'.fault
        /\ Cardinality(SqlMatching(store, last.joker.name)) = 1)
       => /\ last'.kind = "JokerCard"
          /\ last'.card = last.joker]_vars

\* C7: add_joker(record), then a write to the table that bypasses the cache,
\* then get_joker_information of record.name returns the row the table now
\* holds for the name.
C7_InvalidationDropsEntry ==
    [][(/\ WroteBefore("add", last.name)
        /\ last.op = "external"
        /\ last'.op = "get"
        /\ last'.name = last.name
        /\ ~last'.fault)
       => /\ last'.kind = "JokerCard"
          /\ last'.card \in {from_dict(r) : r \in SqlMatching(store, last.name)}]_vars

\* C8: delete_joker returns True whenever the table acknowledges the DELETE,
\* also when no row has the name: called twice in succession it returns True
\* both times, and no row of that name is left.
C8_DeleteIdempotent ==
    (last.op = "delete" /\ ~last.fault)
    => /\ last.raised = NoRaise
       /\ last.kind = "True"
       /\ SqlMatching(store, last.name) = {}

\* delete_joker of the same name has returned True twice in succession.
C8_Witness ==
    /\ WroteBefore("delete", last.name)
    /\ last.op = "delete"
    /\ ~last.fault
    /\ last.kind = "True"

\* The classes of the specification's taxonomy.
TransientFaults == {"RequestException", "ServerError"}
FatalFaults == {"Forbidden", "OAuthException", "RedditAuthenticationError"}

AllTransient == \A k \in 1..retry_limit : attempts[k] \in TransientFaults

\* C9: when every attempt of the wrapped operation ends in a transient
\* fault, _retry_on_failure calls it exactly retry_limit times and then
\* raises; it never calls it more than retry_limit times.
C9_TransientRetryCount ==
    rpc = "done"
    => /\ envelope.calls <= retry_limit
       /\ AllTransient
          => /\ envelope.calls = retry_limit
             /\ envelope.outcome = "raise"
             /\ envelope.error \in {"RedditServiceError", "RedditConnectionError"}

\* Every one of at least two attempts was a transient fault and the envelope
\* has raised.
C9_Witness ==
    /\ rpc = "done"
    /\ retry_limit >= 2
    /\ AllTransient
    /\ envelope.calls = retry_limit
    /\ envelope.outcome = "raise"

\* C10: when the operation fails with a fatal fault (authentication or
\* permission), the envelope raises after that single attempt, with no retry
\* and no wait.
C10_FatalNeverRetried ==
    (/\ rpc = "done"
     /\ retry_limit >= 1
     /\ attempts[1] \in FatalFaults)
    => /\ envelope.outcome = "raise"
       /\ envelope.calls = 1
       /\ envelope.waits = <<>>

\* C11: when the handling of one comment fails (extraction raises, or the
\* reply is not delivered within the retry budget), the loop of run goes on
\* with the next comment of the stream.
C11_FailureIsIsolated ==
    [][(/\ pc = "streaming"
        /\ seen' = seen + 1
        /\ \/ handled'.matches.kind = "raise"
           \/ handled'.sends > 0 /\ ~handled'.acked)
       => pc' = "streaming"]_vars

\* C12: when iterating the open stream fails, run opens the stream again
\* through the retry envelope instead of ending.
C12_MidStreamDropReopens ==
    [][(/\ pc = "streaming"
        /\ seen' = seen
        /\ pc' # "streaming")
       => pc' = "start"]_vars

\* C13: every successful get_joker_name_list returns exactly the names the
\* table holds at the time of the call.
C13_ListIsFresh ==
    (last.op = "list" /\ last.raised = NoRaise)
    => /\ {last.names[i] : i \in DOMAIN last.names} = {r.name : r \in store}
       /\ Len(last.names) = Cardinality(store)

\* C14: after delete_joker(name) has returned, the cache holds no entry for
\* the name, in any spelling, and no name-list entry, whether or not a row
\* was deleted.
C14_DeleteInvalidatesAlways ==
    (last.op = "delete" /\ last.raised = NoRaise)
    => /\ \A n \in JokerNames :
              Lower(n) = Lower(last.name) => JokerKey(n) \notin DOMAIN cache
       /\ ListKey \notin DOMAIN cache

\* C15: when the write of add_joker fails, the fault is raised and the
\* cache and the table are as they were before the call.
C15_NoSpeculativeInvalidation ==
    [][(last'.op = "add" /\ last'.fault)
       => /\ last'.raised = "QueryError"
          /\ cache' = cache
          /\ store' = store]_vars

\* add_joker has failed with both the entry of the name and the name list
\* in the cache.
C15_Witness ==
    /\ last.op = "add"
    /\ last.raised = "QueryError"
    /\ JokerKey(Lower(last.name)) \in DOMAIN cache
    /\ ListKey \in DOMAIN cache

\* C16: when the query of get_joker_information fails, QueryError is raised
\* and the cache holds no entry under the key of the call.
C16_FaultDropsEntry ==
    (last.op = "get" /\ last.fault)
    => /\ last.raised = "QueryError"
       /\ JokerKey(last.name) \notin DOMAIN cache

\* get_joker_information has raised QueryError while the table holds a row
\* for the name.
C16_Witness ==
    /\ last.op = "get"
    /\ last.raised = "QueryError"
    /\ SqlMatching(store, last.name) # {}

\* C17: get_joker_information of a name the table holds no row for returns
\* None without raising and leaves the cache as it was.
C17_NotFoundIsValue ==
    [][(/\ last'.op = "get"
        /\ ~last'.fault
        /\ SqlMatching(store, last'.name) = {})
       => /\ last'.raised = NoRaise
          /\ last'.kind = "None"
          /\ cache' = cache]_vars

\* C18: add_joker rejects a record with a field that is empty once trimmed,
\* and the table never holds such a record.
C18_StoreHoldsValidRecords ==
    /\ (last.op = "add" /\ ~validate(last.joker)) => last.raised # NoRaise
    /\ \A r \in store : validate(r)

\* The rate-limit class of the envelope, and the exchange of a rate-limit
\* fault for a transient one and back.
RateLimitedFaults == {"RedditRateLimitError"}

SwapTrigger(o) ==
    IF o \in RateLimitedFaults THEN "RequestException"
    ELSE IF o \in TransientFaults THEN "RedditRateLimitError"
    ELSE o

AllRetryable ==
    \A k \in 1..retry_limit : attempts[k] \in TransientFaults \cup RateLimitedFaults

C20_ExhaustionIsOwnError ==
    (rpc = "done" /\ retry_limit >= 1 /\ AllRetryable)
    => /\ envelope.outcome = "raise"
       /\ envelope.exhausted
       /\ envelope.error = "RedditServiceError"

\* C21: a comment whose body holds no bracketed reference to a known phrase
\* gives an empty match set, and run makes no lookup and sends no reply for
\* it.
C21_EmptyMatchSetSkipped ==
    LET c == handled.comment
    IN (/\ c.present
        /\ c.has_body
        /\ DistinctRefs(c, config) = <<>>)
       => /\ handled.matches.kind # "raise"
          /\ handled.matches.items = <<>>
          /\ handled.lookups = <<>>
          /\ handled.sends = 0

\* run has handled a comment of a user that passes the gate as the
\* specification words it, with a body that names no known phrase.
C21_Witness ==
    /\ seen > 0
    /\ PassesGate(handled.comment, config)
    /\ handled.comment.body # <<>>
    /\ DistinctRefs(handled.comment, config) = <<>>
    /\ handled.matches.items = <<>>
    /\ handled.sends = 0

\* C23: should_process_comment returns a boolean for every input, a missing
\* comment and a comment without author, body or id included; it never
\* raises.
C23_GateNeverRaises ==
    xpc = "done" => gate.raised = NoRaise

LookupResolved(l) == l.raised = NoRaise

\* C28: the names of the match list are looked up in the order of the list,
\* the reply holds one block per resolved record in that same order, and a
\* name that is not found or whose lookup fails is dropped while the names
\* after it are still looked up and rendered.
C28_LookupAndRenderOrder ==
    (seen = 1 /\ ShouldReply(matches))
    => LET lookups == handled.lookups
           blocks == handled.reply.blocks
           resolved == SelectSeq(lookups, LookupResolved)
       IN /\ Len(lookups) = Len(matches.items)
          /\ \A i \in DOMAIN lookups : lookups[i].name = matches.items[i]
          /\ Len(blocks) = Len(resolved)
          /\ \A k \in DOMAIN blocks :
                 Lower(blocks[k].header) = Lower(resolved[k].name)
          /\ \A i \in DOMAIN lookups :
                 /\ lookups[i].raised = NoRaise
                    => Resolves(store, lookups[i].name)
                 /\ lookups[i].raised = "JokerNotFoundError"
                    => SqlMatching(store, lookups[i].name) = {}

\* The first name of the list was dropped and the second one rendered.
C28_Witness ==
    /\ seen = 1
    /\ Len(handled.lookups) = 2
    /\ handled.lookups[1].raised # NoRaise
    /\ handled.lookups[2].raised = NoRaise
    /\ Len(handled.reply.blocks) = 1
    /\ Lower(handled.reply.blocks[1].header) = Lower(matches.items[2])

\* C29: the reply holds at most the configured maximum number of blocks.
C29_ReplyTruncated ==
    (seen = 1 /\ ShouldReply(matches))
    => Len(handled.reply.blocks) <= config.max_matches

\* C24: a fault that arises while extract_match_names works on one comment
\* is caught inside it: the call returns an empty result and raises nothing
\* to its caller.
C24_MatchingFaultsContained ==
    xpc = "done"
    => /\ matches.kind # "raise"
       /\ gate.raised # NoRaise => matches.items = <<>>

\* C26: the entries extract_match_names returns are the recognized
\* references in the order of their first occurrence in the body: of two
\* distinct references the one that occurs first comes first in the result.
C26_FirstAppearanceOrder ==
    (/\ xpc = "done"
     /\ comment.has_id
     /\ PassesGate(comment, config)
     /\ config.strip_whitespace
     /\ Len(DistinctRefs(comment, config)) <= config.max_matches)
    => LET refs == DistinctRefs(comment, config)
       IN \A i, j \in DOMAIN refs :
              i < j => \E p, q \in DOMAIN matches.items :
                           /\ p < q
                           /\ matches.items[p] = refs[i]
                           /\ matches.items[q] = refs[j]

\* C27: every name the matching loop accepts equals, once trimmed and
\* lower-cased, one of the configured phrases; a bracketed candidate that
\* only contains, extends or resembles a phrase is not accepted.
C27_ExactMatchOnly ==
    xpc = "done"
    => /\ \A x \in matches.valid_matches : Normalize(x) \in config.match_phrases
       /\ \A i \in DOMAIN matches.items :
              Normalize(matches.items[i]) \in config.match_phrases

\* The body holds a candidate that extends a phrase next to one that equals
\* a phrase, and the loop has accepted a name.
C27_Witness ==
    /\ xpc = "done"
    /\ \E i \in DOMAIN comment.body :
           /\ comment.body[i].bracketed
           /\ comment.body[i].text = <<"a", "b">>
    /\ matches.valid_matches # {}

\* C25: constructing the processor with a pattern re.compile rejects raises
\* ValueError.
C25_MalformedPatternValueError ==
    (xpc = "done" /\ re_compile(config.pattern).raised # NoRaise)
    => gate.raised = "ValueError"

\* C30: once a stop has been requested, run starts no new event.
C30_CooperativeStop ==
    [][stop_requested => seen' = seen]_vars

(***************************************************************************)
(* JokerCard.validate applied to one card.                                 *)
(***************************************************************************)
\* A str field of a card: empty, whitespace only, or with content.
FieldValues == {<<>>, <<" ">>, <<"v">>}

ValidateCards ==
    [name : FieldValues, effect : FieldValues, rarity : FieldValues,
     cost : FieldValues, availability : FieldValues]

ValidateCall(joker, kind) ==
    [op |-> "validate", name |-> joker.name, joker |-> joker, fault |-> FALSE,
     raised |-> NoRaise, kind |-> kind, card |-> NoCard, names |-> <<>>]

InitValidate ==
    /\ ExtIdle
    /\ store = {}
    /\ cache = EmptyCache
    /\ \E joker \in ValidateCards : last = ValidateCall(joker, "call")
    /\ prev = CallSummary(NoCall)
    /\ ProcIdle /\ RetryIdle /\ BotIdle

Validate ==
    /\ last.op = "validate"
    /\ last.kind = "call"
    /\ last' = ValidateCall(last.joker,
                            IF validate(last.joker) THEN "True" ELSE "False")
    /\ UNCHANGED <<store, cache, prev>>
    /\ UNCHANGED <<procVars, retryVars, botVars, extVars>>

NextValidate == Validate

SpecValidate == InitValidate /\ [][NextValidate]_vars

\* C31: validate() returns True only for a card whose name, effect, rarity,
\* cost and availability are all non-empty after trimming whitespace.
C31_ValidOnlyIfAllFieldsNonEmpty ==
    (last.op = "validate" /\ last.kind = "True") =>
        /\ Strip(last.joker.name) # <<>>
        /\ Strip(last.joker.effect) # <<>>
        /\ Strip(last.joker.rarity) # <<>>
        /\ Strip(last.joker.cost) # <<>>
        /\ Strip(last.joker.availability) # <<>>

(***************************************************************************)
(* cachetools.LRUCache: the mapping and the order of use of its keys,      *)
(* least recently used first.  Every value has size 1.                     *)
(***************************************************************************)
LruCache(data, order) == [data |-> data, order |-> order]

Without(order, key) == SelectSeq(order, LAMBDA k : k # key)

\* cache[key]: the key becomes the most recently used one.
LRUCache__getitem__(L, key) ==
    LruCache(L.data, Append(Without(L.order, key), key))

\* popitem(): the least recently used key leaves.
LRUCache_popitem(L) ==
    LruCache(CachePop(L.data, Head(L.order)), Tail(L.order))

\* while currsize + size > maxsize: popitem()
RECURSIVE LRUCache_makeroom(_, _)
LRUCache_makeroom(L, size) ==
    IF Len(L.order) + 1 > size /\ L.order # <<>>
    THEN LRUCache_makeroom(LRUCache_popitem(L), size)
    ELSE L

\* cache[key] = value that makes room by dropping the most recently used key.
LRUCache__setitem__mru(L, key, value, size) ==
    LET E == IF key \in DOMAIN L.data \/ Len(L.order) + 1 <= size THEN L
             ELSE LruCache(CachePop(L.data, L.order[Len(L.order)]),
                           SubSeq(L.order, 1, Len(L.order) - 1))
    IN LruCache(CachePut(E.data, key, value), Append(Without(E.order, key), key))

\* cache[key] = value
LRUCache__setitem__(L, key, value, size) ==
    LET E == IF key \in DOMAIN L.data THEN L ELSE LRUCache_makeroom(L, size)
    IN LruCache(CachePut(E.data, key, value), Append(Without(E.order, key), key))

\* cache.pop(key, None)
LRUCache_pop(L, key) == LruCache(CachePop(L.data, key), Without(L.order, key))

(***************************************************************************)
(* The repository operations on a cache whose capacity can be reached.     *)
(* The database answers every statement.                                   *)
(***************************************************************************)
LruResult(st, L, kind, card, names) ==
    [store |-> st, cache |-> L.data, recency |-> L.order, raised |-> NoRaise,
     kind |-> kind, card |-> card, names |-> names]

get_joker_information_lru(st, L, name, order, size) ==
    LET cache_key == JokerKey(name)
    IN IF cache_key \in DOMAIN L.data
       THEN LruResult(st, LRUCache__getitem__(L, cache_key), "JokerCard",
                      L.data[cache_key].card, <<>>)
       ELSE LET result == SqlMatching(st, name)
            IN IF result # {}
               THEN LET joker == from_dict(FirstRow(result, order))
                    IN LruResult(st, LRUCache__setitem__(L, cache_key,
                                         CacheValue(joker, <<>>), size),
                                 "JokerCard", joker, <<>>)
               ELSE LruResult(st, L, "None", NoCard, <<>>)

get_joker_name_list_lru(st, L, size) ==
    LET cache_key == ListKey
    IN IF cache_key \in DOMAIN L.data
       THEN LruResult(st, LRUCache__getitem__(L, cache_key), "list", NoCard,
                      L.data[cache_key].names)
       ELSE LET joker_names == SortedNames({r.name : r \in st})
            IN LruResult(st, LRUCache__setitem__(L, cache_key,
                                 CacheValue(NoCard, joker_names), size),
                         "list", NoCard, joker_names)

add_joker_lru(st, L, joker) ==
    LruResult(SqlUpsert(st, as_dict(joker)),
              LRUCache_pop(LRUCache_pop(L, JokerKey(Lower(joker.name))), ListKey),
              "None", NoCard, <<>>)

delete_joker_lru(st, L, name) ==
    LET affected == Cardinality(SqlMatching(st, name))
    IN LruResult(st \ SqlMatching(st, name),
                 IF affected > 0
                 THEN LRUCache_pop(LRUCache_pop(L, JokerKey(Lower(name))), ListKey)
                 ELSE L,
                 "True", NoCard, <<>>)

(***************************************************************************)
(* One sequence of calls made on two repositories over equal tables: one   *)
(* with a small cache, the twin with the cache of 1024 entries.            *)
(***************************************************************************)
Twin(r) ==
    [cache |-> r.cache, recency |-> r.recency, kind |-> r.kind,
     card |-> r.card, names |-> r.names]

ThisLru == LruCache(cache, recency)
TwinLru == LruCache(twin.cache, twin.recency)

InitCap ==
    /\ store = {}
    /\ cache = EmptyCache
    /\ last = NoCall
    /\ prev = CallSummary(NoCall)
    /\ recency = <<>>
    /\ maxsize \in 1..MaxCacheSize
    /\ twin = [NoTwin EXCEPT !.cache = EmptyCache]
    /\ threads = <<>>
    /\ legacy = <<>>
    /\ importer = <<>>
    /\ ProcIdle /\ RetryIdle /\ BotIdle

CapGetJokerInformation ==
    \E name \in JokerNames :
      \E order \in IF Cardinality(SqlMatching(store, name)) > 1
                    THEN HeapOrders ELSE {NameOrder} :
        LET r == get_joker_information_lru(store, ThisLru, name, order, maxsize)
            t == get_joker_information_lru(store, TwinLru, name, order, CacheMaxSize)
        IN /\ store' = r.store
           /\ cache' = r.cache
           /\ recency' = r.recency
           /\ twin' = Twin(t)
           /\ last' = CallRec("get", name, NoCard, FALSE, r)
           /\ prev' = CallSummary(last)
           /\ UNCHANGED <<maxsize, threads, legacy, importer>>
           /\ UNCHANGED <<procVars, retryVars, botVars>>

CapGetJokerNameList ==
    LET r == get_joker_name_list_lru(store, ThisLru, maxsize)
        t == get_joker_name_list_lru(store, TwinLru, CacheMaxSize)
    IN /\ store' = r.store
       /\ cache' = r.cache
       /\ recency' = r.recency
       /\ twin' = Twin(t)
       /\ last' = CallRec("list", <<>>, NoCard, FALSE, r)
       /\ prev' = CallSummary(last)
       /\ UNCHANGED <<maxsize, threads, legacy, importer>>
       /\ UNCHANGED <<procVars, retryVars, botVars>>

CapAddJoker ==
    \E joker \in JokerCards :
        LET r == add_joker_lru(store, ThisLru, joker)
            t == add_joker_lru(store, TwinLru, joker)
        IN /\ store' = r.store
           /\ cache' = r.cache
           /\ recency' = r.recency
           /\ twin' = Twin(t)
           /\ last' = CallRec("add", joker.name, joker, FALSE, r)
           /\ prev' = CallSummary(last)
           /\ UNCHANGED <<maxsize, threads, legacy, importer>>
           /\ UNCHANGED <<procVars, retryVars, botVars>>

CapDeleteJoker ==
    \E name \in JokerNames :
        LET r == delete_joker_lru(store, ThisLru, name)
            t == delete_joker_lru(store, TwinLru, name)
        IN /\ store' = r.store
           /\ cache' = r.cache
           /\ recency' = r.recency
           /\ twin' = Twin(t)
           /\ last' = CallRec("delete", name, NoCard, FALSE, r)
           /\ prev' = CallSummary(last)
           /\ UNCHANGED <<maxsize, threads, legacy, importer>>
           /\ UNCHANGED <<procVars, retryVars, botVars>>

NextCap ==
    \/ CapGetJokerInformation
    \/ CapGetJokerNameList
    \/ CapAddJoker
    \/ CapDeleteJoker

SpecCap == InitCap /\ [][NextCap]_vars

\* C32: the cache never holds more than maxsize entries, its keys are the
\* keys in the order of use, and an entry that leaves the cache on a read
\* is the least recently used one.
C32_CapacityBoundLru ==
    /\ [](/\ Cardinality(DOMAIN cache) <= maxsize
          /\ Len(recency) = Cardinality(DOMAIN cache)
          /\ \A i \in DOMAIN recency : recency[i] \in DOMAIN cache)
    /\ [][last'.op \in {"get", "list"} =>
            \A k \in DOMAIN cache \ DOMAIN cache' : k = recency[1]]_vars

\* An entry was evicted: the cache is full and the twin holds a key more.
C32_Witness ==
    /\ maxsize > 1
    /\ Cardinality(DOMAIN cache) = maxsize
    /\ last.op \in {"get", "list"}
    /\ Cardinality(DOMAIN twin.cache) > maxsize

\* C33: every call returns the same value from the repository with the
\* small cache and from its twin.
C33_CapacityDoesNotAffectResults ==
    last.op \in {"get", "list", "add", "delete"} =>
        /\ last.kind = twin.kind
        /\ last.card = twin.card
        /\ last.names = twin.names

(***************************************************************************)
(* Threads calling one repository.  The methods take no lock, so a thread  *)
(* can be between any two statements of a method when another one runs.    *)
(* A statement on the cache or on the table is one step.  Two readers      *)
(* call get_joker_information; a writer calls add_joker or delete_joker.   *)
(***************************************************************************)
Readers == {"r1", "r2"}

\* A reader before its call; row is the row its query returned.
ReaderStart(name) ==
    [pc |-> "check", name |-> name, row |-> NoCard, joker |-> NoCard,
     missed |-> FALSE, kind |-> "None", card |-> NoCard]

\* A writer before its call.
WriterStart(op, joker) ==
    [pc |-> "write", op |-> op, name |-> joker.name, joker |-> joker]

WriterCalls ==
    {WriterStart("add", joker) : joker \in JokerCards}
        \cup {WriterStart("delete", [NoCard EXCEPT !.name = name]) :
                  name \in JokerNames}

\* return joker that returns what the cache holds under the key.
ReaderReturnsCached(ca, cache_key, joker) ==
    IF cache_key \in DOMAIN ca THEN ca[cache_key].card ELSE NoCard

\* return joker
ReaderReturns(ca, cache_key, joker) == joker

InitRace ==
    /\ store \in StoreStates
    /\ cache = EmptyCache
    /\ last = NoCall
    /\ prev = CallSummary(NoCall)
    /\ LruIdle
    /\ \E n1, n2 \in JokerNames, w \in WriterCalls :
           threads = [r1 |-> ReaderStart(n1), r2 |-> ReaderStart(n2), w |-> w]
    /\ legacy = <<>>
    /\ importer = <<>>
    /\ ProcIdle /\ RetryIdle /\ BotIdle

\* if cache_key in self.cache: return self.cache[cache_key]
ReaderCheck ==
    \E t \in Readers :
        LET cache_key == JokerKey(threads[t].name)
        IN /\ threads[t].pc = "check"
           /\ threads' =
                  IF cache_key \in DOMAIN cache
                  THEN [threads EXCEPT ![t].pc = "done",
                                       ![t].kind = "JokerCard",
                                       ![t].card = cache[cache_key].card]
                  ELSE [threads EXCEPT ![t].pc = "query", ![t].missed = TRUE]
           /\ UNCHANGED <<repoVars, lruVars, legacy, importer>>
           /\ UNCHANGED <<procVars, retryVars, botVars>>

\* result = self.execute_query(query, (name,)); JokerCard.from_dict(result[0])
ReaderQuery ==
    \E t \in Readers :
      \E order \in IF Cardinality(SqlMatching(store, threads[t].name)) > 1
                    THEN HeapOrders ELSE {NameOrder} :
        LET result == SqlMatching(store, threads[t].name)
        IN /\ threads[t].pc = "query"
           /\ threads' =
                  IF result # {}
                  THEN [threads EXCEPT
                            ![t].pc = "populate",
                            ![t].row = FirstRow(result, order),
                            ![t].joker = from_dict(FirstRow(result, order))]
                  ELSE [threads EXCEPT ![t].pc = "done", ![t].kind = "None"]
           /\ UNCHANGED <<repoVars, lruVars, legacy, importer>>
           /\ UNCHANGED <<procVars, retryVars, botVars>>

\* self.cache[cache_key] = joker
ReaderPopulate ==
    \E t \in Readers :
        /\ threads[t].pc = "populate"
        /\ cache' = CachePut(cache, JokerKey(threads[t].name),
                             CacheValue(threads[t].joker, <<>>))
        /\ threads' = [threads EXCEPT ![t].pc = "return"]
        /\ UNCHANGED <<store, last, prev, lruVars, legacy, importer>>
        /\ UNCHANGED <<procVars, retryVars, botVars>>

\* return joker
ReaderReturn ==
    \E t \in Readers :
        /\ threads[t].pc = "return"
        /\ threads' =
               [threads EXCEPT
                    ![t].pc = "done",
                    ![t].kind = "JokerCard",
                    ![t].card = ReaderReturns(cache, JokerKey(threads[t].name),
                                              threads[t].joker)]
        /\ UNCHANGED <<repoVars, lruVars, legacy, importer>>
        /\ UNCHANGED <<procVars, retryVars, botVars>>

\* self.execute_query(query, ...) of add_joker or delete_joker
WriterWrite ==
    LET w == threads.w
        affected == Cardinality(SqlMatching(store, w.name))
    IN /\ w.pc = "write"
       /\ store' = IF w.op = "add" THEN SqlUpsert(store, as_dict(w.joker))
                   ELSE store \ SqlMatching(store, w.name)
       /\ threads' =
              [threads EXCEPT !.w.pc = IF w.op = "add" \/ affected > 0
                                       THEN "pop_key" ELSE "done"]
       /\ UNCHANGED <<cache, last, prev, lruVars, legacy, importer>>
       /\ UNCHANGED <<procVars, retryVars, botVars>>

\* self.cache.pop(f"joker:{name.lower()}", None)
WriterPopKey ==
    /\ threads.w.pc = "pop_key"
    /\ cache' = CachePop(cache, JokerKey(Lower(threads.w.name)))
    /\ threads' = [threads EXCEPT !.w.pc = "pop_list"]
    /\ UNCHANGED <<store, last, prev, lruVars, legacy, importer>>
    /\ UNCHANGED <<procVars, retryVars, botVars>>

\* self.cache.pop("joker_list", None)
WriterPopList ==
    /\ threads.w.pc = "pop_list"
    /\ cache' = CachePop(cache, ListKey)
    /\ threads' = [threads EXCEPT !.w.pc = "done"]
    /\ UNCHANGED <<store, last, prev, lruVars, legacy, importer>>
    /\ UNCHANGED <<procVars, retryVars, botVars>>

NextRace ==
    \/ ReaderCheck
    \/ ReaderQuery
    \/ ReaderPopulate
    \/ ReaderReturn
    \/ WriterWrite
    \/ WriterPopKey
    \/ WriterPopList

SpecRace == InitRace /\ [][NextRace]_vars

\* The records the table holds for a name, as get_joker_information builds
\* them.
CurrentRecords(name) == {from_dict(r) : r \in SqlMatching(store, name)}

\* C34: once a reader that missed on a key and a writer of the same key have
\* both finished, the cache entry of the key is absent or is the record the
\* table holds for it.
C34_RaceLeavesNoStaleEntry ==
    (/\ threads.r1.pc = "done" /\ threads.r1.missed
     /\ threads.w.pc = "done"
     /\ threads.r2.pc = "check"
     /\ threads.r1.name = threads.w.name
     /\ Lower(threads.w.name) = threads.w.name)
    => \/ JokerKey(threads.r1.name) \notin DOMAIN cache
       \/ cache[JokerKey(threads.r1.name)].card \in CurrentRecords(threads.r1.name)

\* C35: two readers that missed on the same key each return the record of
\* the row their own query read, every cached value of the key is such a
\* record, and once both have finished the entry, if any, is the value one
\* of them returned.
C35_ReadersConverge ==
    (/\ threads.r1.name = threads.r2.name
     /\ threads.r1.missed /\ threads.r2.missed)
    => LET cache_key == JokerKey(threads.r1.name)
           populated == {t \in Readers : threads[t].pc = "done"
                                           /\ threads[t].kind = "JokerCard"}
       IN /\ \A t \in populated : threads[t].card = from_dict(threads[t].row)
          /\ cache_key \in DOMAIN cache =>
                 cache[cache_key].card \in
                     {from_dict(threads[t].row) :
                          t \in {u \in Readers : threads[u].pc \in {"return", "done"}}}
          /\ (threads.r1.pc = "done" /\ threads.r2.pc = "done"
                  /\ cache_key \in DOMAIN cache)
                 => cache[cache_key].card \in {threads[t].card : t \in populated}

\* Both readers missed on one key, read different rows and finished.
C35_Witness ==
    /\ threads.r1.name = threads.r2.name
    /\ threads.r1.missed /\ threads.r2.missed
    /\ threads.r1.pc = "done" /\ threads.r2.pc = "done"
    /\ threads.r1.kind = "JokerCard" /\ threads.r2.kind = "JokerCard"
    /\ threads.r1.card # threads.r2.card
    /\ JokerKey(threads.r1.name) \in DOMAIN cache

C37_AtMostOneAcknowledgedReply ==
    handled # NoHandled
    => /\ Cardinality({k \in 1..handled.sends : attempts[k] = "ok"}) <= 1
       /\ handled.acked => attempts[handled.sends] = "ok"
       /\ seen = 1

\* A reply was acknowledged on a send that followed a failed one.
C37_Witness ==
    /\ handled # NoHandled
    /\ handled.acked
    /\ handled.sends >= 2

AllRateLimited == \A k \in 1..retry_limit : attempts[k] \in RateLimitedFaults

AllConnectionOrService ==
    \A k \in 1..retry_limit :
        OperationRaises(attempts[k]) \in {"RedditConnectionError", "RedditServiceError"}

RECURSIVE SumSeq(_)
SumSeq(q) == IF q = <<>> THEN 0 ELSE Head(q) + SumSeq(Tail(q))

MAX_RETRIES == 3
RETRY_DELAY == 5

\* What the stream (or opening it) can raise: the two classes run retries
\* on, and other subclasses of Exception.
LegacyTransient == {"RequestException", "ServerError"}
LegacyStreamFaults == LegacyTransient \cup {"Forbidden", "PRAWException"}

\* What _handle_comment can do with a comment.
LegacyCommentOutcomes == {"ok", "PRAWException", "BalatroBotError"}

\* faults counts the request and server errors the stream has raised since
\* run was called; handled is what _handle_comment did with the last
\* comment; slept is the time spent in time.sleep.
LegacyStart ==
    [pc |-> "while", retries |-> 0, faults |-> 0, opens |-> 0, events |-> 0,
     handled |-> "none", slept |-> 0, error |-> NoRaise, message |-> "",
     cause |-> NoRaise]

\* The except clauses of run that leave a server error uncounted.
run_except_uncounted(l, exc) ==
    IF exc = "RequestException"
    THEN [l EXCEPT !.retries = l.retries + 1,
                   !.slept = IF l.retries + 1 < MAX_RETRIES
                             THEN l.slept + RETRY_DELAY ELSE l.slept,
                   !.pc = "while"]
    ELSE IF exc = "ServerError"
    THEN [l EXCEPT !.pc = "while"]
    ELSE [l EXCEPT !.pc = "raised", !.error = "BalatroBotError",
                   !.message = "Bot execution failed", !.cause = exc]

\* The except clauses of run.
run_except(l, exc) ==
    IF exc \in LegacyTransient
    THEN [l EXCEPT !.retries = l.retries + 1,
                   !.slept = IF l.retries + 1 < MAX_RETRIES
                             THEN l.slept + RETRY_DELAY ELSE l.slept,
                   !.pc = "while"]
    ELSE [l EXCEPT !.pc = "raised", !.error = "BalatroBotError",
                   !.message = "Bot execution failed", !.cause = exc]

InitLegacy ==
    /\ legacy = LegacyStart
    /\ LruIdle
    /\ threads = <<>>
    /\ importer = <<>>
    /\ ProcIdle /\ RepoIdle /\ RetryIdle /\ BotIdle

\* while retries < MAX_RETRIES: _init_reddit() and subreddit() succeed.
LegacyOpen ==
    /\ legacy.pc = "while"
    /\ legacy.retries < MAX_RETRIES
    /\ legacy' = [legacy EXCEPT !.pc = "stream", !.opens = legacy.opens + 1]
    /\ UNCHANGED <<lruVars, threads, importer>>
    /\ UNCHANGED <<procVars, repoVars, retryVars, botVars>>

\* _init_reddit() raises its RedditConnectionError.
LegacyOpenFails ==
    /\ legacy.pc = "while"
    /\ legacy.retries < MAX_RETRIES
    /\ legacy' = run_except(legacy, "RedditConnectionError")
    /\ UNCHANGED <<lruVars, threads, importer>>
    /\ UNCHANGED <<procVars, repoVars, retryVars, botVars>>

\* The while condition fails: raise BalatroBotError("Maximum retries exceeded")
LegacyExhausted ==
    /\ legacy.pc = "while"
    /\ ~(legacy.retries < MAX_RETRIES)
    /\ legacy' = [legacy EXCEPT !.pc = "raised", !.error = "BalatroBotError",
                                !.message = "Maximum retries exceeded"]
    /\ UNCHANGED <<lruVars, threads, importer>>
    /\ UNCHANGED <<procVars, repoVars, retryVars, botVars>>

\* The stream yields a comment; whatever _handle_comment raises is logged
\* and the loop continues.
LegacyHandleComment ==
    \E outcome \in LegacyCommentOutcomes :
        /\ legacy.pc = "stream"
        /\ legacy.events < MaxLegacyEvents
        /\ legacy' = [legacy EXCEPT !.events = legacy.events + 1,
                                    !.handled = outcome]
        /\ UNCHANGED <<lruVars, threads, importer>>
        /\ UNCHANGED <<procVars, repoVars, retryVars, botVars>>

\* The stream raises.
LegacyStreamFault ==
    \E exc \in LegacyStreamFaults :
        /\ legacy.pc = "stream"
        /\ legacy' =
               [run_except(legacy, exc) EXCEPT
                    !.faults = IF exc \in LegacyTransient
                               THEN legacy.faults + 1 ELSE legacy.faults]
        /\ UNCHANGED <<lruVars, threads, importer>>
        /\ UNCHANGED <<procVars, repoVars, retryVars, botVars>>

\* The for loop ends because the stream yields nothing more.
LegacyStreamEnds ==
    /\ legacy.pc = "stream"
    /\ legacy.events < MaxLegacyEvents
    /\ legacy' = [legacy EXCEPT !.pc = "while", !.events = legacy.events + 1]
    /\ UNCHANGED <<lruVars, threads, importer>>
    /\ UNCHANGED <<procVars, repoVars, retryVars, botVars>>

NextLegacy ==
    \/ LegacyOpen
    \/ LegacyOpenFails
    \/ LegacyExhausted
    \/ LegacyHandleComment
    \/ LegacyStreamFault
    \/ LegacyStreamEnds

SpecLegacy == InitLegacy /\ [][NextLegacy]_vars

\* C39: BalatroBot.run leaves only by raising BalatroBotError, for a fault
\* that is not a request or server error or when the request and server
\* errors of the whole run number MAX_RETRIES; its counter is the number of
\* those errors since run was called, whatever was opened or handled in
\* between.
C39_LegacyBudgetIsCumulative ==
    /\ legacy.pc \in {"while", "stream", "raised"}
    /\ legacy.retries = legacy.faults
    /\ legacy.faults <= MAX_RETRIES
    /\ legacy.faults = MAX_RETRIES => legacy.pc # "stream"
    /\ legacy.pc = "raised"
       => /\ legacy.error = "BalatroBotError"
          /\ \/ legacy.cause \notin LegacyTransient \cup {NoRaise}
             \/ legacy.cause = NoRaise /\ legacy.faults = MAX_RETRIES

\* The budget ran out although the stream was opened again with success and
\* comments were handled between the faults.
C39_Witness ==
    /\ legacy.pc = "raised"
    /\ legacy.message = "Maximum retries exceeded"
    /\ legacy.opens = MAX_RETRIES
    /\ legacy.events >= 2

(***************************************************************************)
(* scripts/import_jokers.py, CSVImporter.import_data.                      *)
(***************************************************************************)
\* None, the value csv.DictReader gives a column that a short row leaves
\* out; it is no str.
MissingValue == <<"None">>

\* The rows of the CSV file.  Only the last column can be missing.
CsvRecords ==
    [name : {<<"a">>, <<" ">>}, effect : {<<"x">>, <<" ", "y">>},
     rarity : {<<"r">>}, cost : {<<"1">>},
     availability : {<<"v">>, <<" ">>, MissingValue}]

CsvFiles == SeqsUpTo(CsvRecords, MaxRecords)

\* CSVImporter.process_record: v.strip() raises AttributeError on None.
process_record(record) ==
    IF record.availability = MissingValue
    THEN [kind |-> "raise", raised |-> "AttributeError", joker |-> NoCard]
    ELSE LET cleaned_record ==
                 [name |-> Strip(record.name), effect |-> Strip(record.effect),
                  rarity |-> Strip(record.rarity), cost |-> Strip(record.cost),
                  availability |-> Strip(record.availability)]
             joker == from_dict(cleaned_record)
         IN IF ~validate(joker)
            THEN [kind |-> "None", raised |-> NoRaise, joker |-> NoCard]
            ELSE [kind |-> "JokerCard", raised |-> NoRaise, joker |-> joker]

\* A CSVImporter after __init__, for a file with the given rows.
ImporterStart(records) ==
    [pc |-> "read", file |-> records, total_records |-> 0,
     successful_imports |-> 0, failed_imports |-> 0, validation_errors |-> 0,
     processed |-> <<>>]

ImportStep(imp, st, ca, outcome) ==
    [importer |-> [imp EXCEPT !.processed = Append(imp.processed, outcome)],
     store |-> st, cache |-> ca]

\* The body of the for loop that counts nothing when an exception is caught.
import_record_uncounted(imp, st, ca, record, fault) ==
    LET p == process_record(record)
    IN IF p.kind = "raise"
       THEN ImportStep(imp, st, ca, "raised")
       ELSE IF p.kind = "None"
       THEN ImportStep([imp EXCEPT !.failed_imports = imp.failed_imports + 1,
                                   !.validation_errors = imp.validation_errors + 1],
                       st, ca, "invalid")
       ELSE LET r == add_joker(st, ca, p.joker, fault)
            IN IF r.raised # NoRaise
               THEN ImportStep(imp, r.store, r.cache, "raised")
               ELSE ImportStep([imp EXCEPT !.successful_imports =
                                               imp.successful_imports + 1],
                               r.store, r.cache, "stored")

\* The body of the for loop of import_data for one record.  The last field
\* of the step says what happened to the record.
import_record(imp, st, ca, record, fault) ==
    LET p == process_record(record)
    IN IF p.kind = "raise"
       THEN ImportStep([imp EXCEPT !.failed_imports = imp.failed_imports + 1],
                       st, ca, "raised")
       ELSE IF p.kind = "None"
       THEN ImportStep([imp EXCEPT !.failed_imports = imp.failed_imports + 1,
                                   !.validation_errors = imp.validation_errors + 1],
                       st, ca, "invalid")
       ELSE LET r == add_joker(st, ca, p.joker, fault)
            IN IF r.raised # NoRaise
               THEN ImportStep([imp EXCEPT !.failed_imports = imp.failed_imports + 1],
                               r.store, r.cache, "raised")
               ELSE ImportStep([imp EXCEPT !.successful_imports =
                                               imp.successful_imports + 1],
                               r.store, r.cache, "stored")

InitImport ==
    /\ \E records \in CsvFiles : importer = ImporterStart(records)
    /\ LruIdle
    /\ threads = <<>>
    /\ legacy = <<>>
    /\ ProcIdle /\ RepoIdle /\ RetryIdle /\ BotIdle

\* records = self.read_csv(); self.total_records = len(records)
ImportReadCsv ==
    /\ importer.pc = "read"
    /\ importer' = [importer EXCEPT !.pc = "loop",
                                    !.total_records = Len(importer.file)]
    /\ UNCHANGED <<lruVars, threads, legacy>>
    /\ UNCHANGED <<procVars, repoVars, retryVars, botVars>>

\* read_csv raises (no file, missing column, csv.Error): import_data logs
\* and raises.
ImportReadFails ==
    /\ importer.pc = "read"
    /\ importer' = [importer EXCEPT !.pc = "raised"]
    /\ UNCHANGED <<lruVars, threads, legacy>>
    /\ UNCHANGED <<procVars, repoVars, retryVars, botVars>>

\* One iteration of the for loop.
ImportRecord ==
    \E fault \in BOOLEAN :
        LET k == Len(importer.processed) + 1
            s == import_record(importer, store, cache, importer.file[k], fault)
        IN /\ importer.pc = "loop"
           /\ k <= Len(importer.file)
           /\ importer' = s.importer
           /\ store' = s.store
           /\ cache' = s.cache
           /\ UNCHANGED <<last, prev, lruVars, threads, legacy>>
           /\ UNCHANGED <<procVars, retryVars, botVars>>

\* self._log_import_summary() after the loop.
ImportSummary ==
    /\ importer.pc = "loop"
    /\ Len(importer.processed) = Len(importer.file)
    /\ importer' = [importer EXCEPT !.pc = "done"]
    /\ UNCHANGED <<lruVars, threads, legacy>>
    /\ UNCHANGED <<procVars, repoVars, retryVars, botVars>>

NextImport ==
    \/ ImportReadCsv
    \/ ImportReadFails
    \/ ImportRecord
    \/ ImportSummary

SpecImport == InitImport /\ [][NextImport]_vars

CountOf(q, S) == Cardinality({k \in DOMAIN q : q[k] \in S})

\* C40: the two counters add up to the number of records processed so far
\* and, at the end, to total_records; a record that is invalid or whose
\* processing or add_joker raised is counted as failed and leaves the table
\* as it was, and the records after it are processed.
C40_ImporterAccounting ==
    /\ importer.pc \in {"loop", "done"}
       => /\ importer.successful_imports + importer.failed_imports
                 = Len(importer.processed)
          /\ importer.successful_imports = CountOf(importer.processed, {"stored"})
          /\ importer.failed_imports
                 = CountOf(importer.processed, {"invalid", "raised"})
          /\ importer.total_records = Len(importer.file)
          /\ \A r \in store :
                 \E k \in DOMAIN importer.processed :
                     /\ importer.processed[k] = "stored"
                     /\ r = as_dict(process_record(importer.file[k]).joker)
    /\ importer.pc = "done"
       => /\ Len(importer.processed) = Len(importer.file)
          /\ importer.successful_imports + importer.failed_imports
                 = importer.total_records
    /\ importer.pc = "raised" => importer.processed = <<>>

\* The import ended after a record that failed was followed by one that was
\* stored.
C40_Witness ==
    /\ importer.pc = "done"
    /\ \E k \in DOMAIN importer.processed :
           /\ importer.processed[k] \in {"invalid", "raised"}
           /\ k < Len(importer.processed)
           /\ importer.processed[k + 1] = "stored"

====
